---- MODULE Spec2Model ----
(***************************************************************************)
(* SpinParser, optional Python tools and scripted test assets.             *)
(*                                                                         *)
(*   SpecLdf  : spinparser.ldf.plot       (opt/python/spinparser/ldf.py)   *)
(*   SpecEval : compare / test_eval.py    (test/scripted/assets)           *)
(*   SpecObs  : test_python_obs.py        (test/scripted/assets)           *)
(*                                                                         *)
(* Each specification drives its own group of variables; the variables of  *)
(* the other two groups stay at their idle values.                         *)
(***************************************************************************)
EXTENDS Integers, Sequences, FiniteSets, TLC

VARIABLES
    \* ---- ldf.plot ----
    ldfFile,        \* the lines of the ldf file
    interactions,   \* the `interactions` argument of plot
    lineNo,         \* number of file lines consumed by the read loop
    sites,          \* list of parsed <site> records
    bonds,          \* list of parsed <bond> records
    interacs,       \* list of parsed <interaction> records
    lines3D,        \* ax.plot3D calls made so far (one gray segment per bond)
    scatter,        \* ax.scatter call: the points drawn (<<>> before the call)
    arrows,         \* Arrow3D artists added to the axes
    texts,          \* ax.text labels added to the axes
    interIdx,       \* position of the interaction loop
    ldfPc,          \* control point of plot
    \* ---- test_python_obs.py ----
    testNo,         \* number of the test in progress (1..9), 10 after the last
    obsReference,   \* the variable `reference` of the script
    obsData,        \* the variable `data`: what spinparser.obs returned
    obsExit,        \* process exit status (-1 while running)
    obsMsg,         \* what the script printed last
    obsPc,          \* "call": about to call obs, "check": about to compare
    \* ---- a session of spinparser.obs queries ----
    qCutoff,        \* the cutoff argument of the session
    qComponent,     \* the component argument
    qKappa,         \* the momentum point, in units of [4.18879, 0, 0]
    qRef,           \* index of the next reference site to query
    qSum,           \* twice the sum of the correlations returned so far
    qSF,            \* twice the structure factor returned
    qPc,            \* "corr", "factor", "done"
    \* ---- test_eval.py ----
    argv,           \* command line: mode, argument count, object paths
    f1,             \* first HDF5 file: path -> node
    f2,             \* second HDF5 file
    callStack,      \* pending calls of compare, innermost first
    exitCode,       \* process exit status (-1 while running)
    exitMsg,        \* what sys.exit printed, or how the run ended
    evalPc          \* control point of the script

ldfVars == <<ldfFile, interactions, lineNo, sites, bonds, interacs,
             lines3D, scatter, arrows, texts, interIdx, ldfPc>>

evalVars == <<argv, f1, f2, callStack, exitCode, exitMsg, evalPc>>

obsVars == <<testNo, obsReference, obsData, obsExit, obsMsg, obsPc>>

queryVars == <<qCutoff, qComponent, qKappa, qRef, qSum, qSF, qPc>>

vars == <<ldfVars, evalVars, obsVars, queryVars>>

notLdf == <<evalVars, obsVars, queryVars>>

notEval == <<ldfVars, obsVars, queryVars>>

notObs == <<ldfVars, evalVars, queryVars>>

notQuery == <<ldfVars, evalVars, obsVars>>

-----------------------------------------------------------------------------
(* Generic helpers *)

Range(s) == {s[i] : i \in 1..Len(s)}

SeqsUpTo(S, n) == UNION {[1..k -> S] : k \in 0..n}

-----------------------------------------------------------------------------
(***************************************************************************)
(* spinparser.ldf.plot                                                     *)
(***************************************************************************)

\* Largest number of lines in an ldf file of the model.
MaxLines == 4

\* Site identifiers that occur in the files of the model.
SiteIds == {1, 2}

\* Coordinates written on the <site> line of a given id (x, y, z).
SiteXYZ(id) == <<2 * id, id, 0>>

\* One line of an ldf file, by the first pattern of the read loop it matches.
\* "other" stands for every line that matches none of the three patterns
\* (the <unitcell> element, <primitive> lines, blank lines, ...).
SiteLine(id) == [tag |-> "site", id |-> id, from |-> 0, to |-> 0]
BondLine(f, t) == [tag |-> "bond", id |-> 0, from |-> f, to |-> t]
InteractionLine(f, t) == [tag |-> "interaction", id |-> 0, from |-> f, to |-> t]
OtherLine == [tag |-> "other", id |-> 0, from |-> 0, to |-> 0]

LdfLines ==
    {SiteLine(id) : id \in SiteIds}
    \cup {BondLine(1, 2)}
    \cup {InteractionLine(f, t) : f \in SiteIds, t \in SiteIds}
    \cup {OtherLine}

\* The `interactions` argument: "all", "none" or an integer.
InteractionsArgs ==
    {[kind |-> "all", n |-> 0], [kind |-> "none", n |-> 0]}
    \cup {[kind |-> "int", n |-> n] : n \in SiteIds}

\* Python's  interaction["from"] == interactions : an int never equals a string.
EqualsArg(id, arg) == arg.kind = "int" /\ arg.n = id

\* Mutant of Selected: the `to` end of the interaction is not compared.
SelectedFromOnly(arg, interaction) ==
    \/ arg.kind = "all"
    \/ EqualsArg(interaction.from, arg)

\* Condition of line 80.
Selected(arg, interaction) ==
    \/ arg.kind = "all"
    \/ EqualsArg(interaction.from, arg)
    \/ EqualsArg(interaction.to, arg)

\* next(i for i in sites if i["id"] == id): index of the first match, 0 when
\* the generator is exhausted (StopIteration).
FirstSite(ss, id) ==
    IF \E i \in 1..Len(ss) : ss[i].id = id
    THEN CHOOSE i \in 1..Len(ss) :
            /\ ss[i].id = id
            /\ \A j \in 1..(i - 1) : ss[j].id # id
    ELSE 0

\* Midpoint used for the label, 0.5*(s1+s2), kept in half units.
Midpoint2(p, q) == <<p[1] + q[1], p[2] + q[2], p[3] + q[3]>>

EvalIdle ==
    /\ argv = <<>>
    /\ f1 = <<>>
    /\ f2 = <<>>
    /\ callStack = <<>>
    /\ exitCode = -1
    /\ exitMsg = [what |-> "none"]
    /\ evalPc = "idle"

QueryIdle ==
    /\ qCutoff = <<>>
    /\ qComponent = ""
    /\ qKappa = 0
    /\ qRef = 0
    /\ qSum = 0
    /\ qSF = 0
    /\ qPc = "idle"

ObsIdle ==
    /\ testNo = 0
    /\ obsReference = <<>>
    /\ obsData = <<>>
    /\ obsExit = -1
    /\ obsMsg = ""
    /\ obsPc = "idle"

LdfIdle ==
    /\ ldfFile = <<>>
    /\ interactions = [kind |-> "none", n |-> 0]
    /\ lineNo = 0
    /\ sites = <<>>
    /\ bonds = <<>>
    /\ interacs = <<>>
    /\ lines3D = <<>>
    /\ scatter = <<>>
    /\ arrows = <<>>
    /\ texts = <<>>
    /\ interIdx = 0
    /\ ldfPc = "idle"

LdfInit ==
    /\ ldfFile \in SeqsUpTo(LdfLines, MaxLines)
    /\ interactions \in InteractionsArgs
    /\ lineNo = 0
    /\ sites = <<>>
    /\ bonds = <<>>
    /\ interacs = <<>>
    /\ lines3D = <<>>
    /\ scatter = <<>>
    /\ arrows = <<>>
    /\ texts = <<>>
    /\ interIdx = 0
    /\ ldfPc = "read"
    /\ EvalIdle
    /\ ObsIdle
    /\ QueryIdle

\* Lines 43-59: one pass of the read loop.
ReadLine ==
    /\ ldfPc = "read"
    /\ lineNo < Len(ldfFile)
    /\ LET l == ldfFile[lineNo + 1] IN
         /\ lineNo' = lineNo + 1
         /\ sites' = IF l.tag = "site"
                     THEN Append(sites, [id |-> l.id, pos |-> SiteXYZ(l.id),
                                         parametrized |-> (l.id = 1)])
                     ELSE sites
         /\ bonds' = IF l.tag = "bond"
                     THEN Append(bonds, [from |-> l.from, to |-> l.to])
                     ELSE bonds
         /\ interacs' = IF l.tag = "interaction"
                        THEN Append(interacs, [from |-> l.from, to |-> l.to])
                        ELSE interacs
    /\ UNCHANGED notLdf
    /\ UNCHANGED <<ldfFile, interactions, lines3D, scatter, arrows, texts,
                   interIdx, ldfPc>>

\* End of the file: lines 61-64 prepare the figure.
PreparePlot ==
    /\ ldfPc = "read"
    /\ lineNo = Len(ldfFile)
    /\ ldfPc' = "bonds"
    /\ UNCHANGED notLdf
    /\ UNCHANGED <<ldfFile, interactions, lineNo, sites, bonds, interacs,
                   lines3D, scatter, arrows, texts, interIdx>>

\* Lines 66-70: the whole bond loop. A bond that names a site the file does
\* not define ends plot with StopIteration.
PlotBonds ==
    /\ ldfPc = "bonds"
    /\ IF \A i \in 1..Len(bonds) :
            FirstSite(sites, bonds[i].from) # 0 /\ FirstSite(sites, bonds[i].to) # 0
       THEN /\ lines3D' = [i \in 1..Len(bonds) |->
                             <<sites[FirstSite(sites, bonds[i].from)].pos,
                               sites[FirstSite(sites, bonds[i].to)].pos>>]
            /\ ldfPc' = "sites"
       ELSE /\ lines3D' = lines3D
            /\ ldfPc' = "raised"
    /\ UNCHANGED notLdf
    /\ UNCHANGED <<ldfFile, interactions, lineNo, sites, bonds, interacs,
                   scatter, arrows, texts, interIdx>>

\* Lines 72-73: one scatter call with every site.
PlotSites ==
    /\ ldfPc = "sites"
    /\ scatter' = [i \in 1..Len(sites) |->
                     [pos |-> sites[i].pos,
                      c |-> IF sites[i].parametrized THEN "#ff7f0e" ELSE "#1f77b4"]]
    /\ ldfPc' = "interactions"
    /\ UNCHANGED notLdf
    /\ UNCHANGED <<ldfFile, interactions, lineNo, sites, bonds, interacs,
                   lines3D, arrows, texts, interIdx>>

\* Lines 76-85: one pass of the interaction loop.
PlotInteraction ==
    /\ ldfPc = "interactions"
    /\ interIdx < Len(interacs)
    /\ LET interaction == interacs[interIdx + 1]
           i1 == FirstSite(sites, interaction.from)
           i2 == FirstSite(sites, interaction.to)
       IN IF i1 = 0 \/ i2 = 0
          THEN /\ ldfPc' = "raised"
               /\ UNCHANGED <<arrows, texts, interIdx>>
          ELSE /\ ldfPc' = ldfPc
               /\ interIdx' = interIdx + 1
               /\ IF Selected(interactions, interaction)
                  THEN /\ arrows' = Append(arrows, <<sites[i1].pos, sites[i2].pos>>)
                       /\ texts' = Append(texts, Midpoint2(sites[i1].pos, sites[i2].pos))
                  ELSE UNCHANGED <<arrows, texts>>
    /\ UNCHANGED notLdf
    /\ UNCHANGED <<ldfFile, interactions, lineNo, sites, bonds, interacs,
                   lines3D, scatter>>

\* Line 87.
ReturnPlot ==
    /\ ldfPc = "interactions"
    /\ interIdx = Len(interacs)
    /\ ldfPc' = "returned"
    /\ UNCHANGED notLdf
    /\ UNCHANGED <<ldfFile, interactions, lineNo, sites, bonds, interacs,
                   lines3D, scatter, arrows, texts, interIdx>>

LdfNext ==
    \/ ReadLine
    \/ PreparePlot
    \/ PlotBonds
    \/ PlotSites
    \/ PlotInteraction
    \/ ReturnPlot

SpecLdf == LdfInit /\ [][LdfNext]_vars

-----------------------------------------------------------------------------
(* Claims about ldf.plot *)

\* Number of positions of a sequence that satisfy a test on (file line).
FileInteractionLines == {i \in 1..Len(ldfFile) : ldfFile[i].tag = "interaction"}

FileSiteLines == {i \in 1..Len(ldfFile) : ldfFile[i].tag = "site"}

FileBondLines == {i \in 1..Len(ldfFile) : ldfFile[i].tag = "bond"}

\* What the docstring (lines 34-36) selects among the interaction lines.
DocSelectedLines ==
    {i \in FileInteractionLines :
        CASE interactions.kind = "all" -> TRUE
          [] interactions.kind = "none" -> FALSE
          [] OTHER -> ldfFile[i].from = interactions.n \/ ldfFile[i].to = interactions.n}

\* Number of arrows drawn from the site with id f to the site with id t.
ArrowCount(f, t) ==
    Cardinality({k \in 1..Len(arrows) : arrows[k] = <<SiteXYZ(f), SiteXYZ(t)>>})

\* C10: when plot returns, the arrows (and as many labels) are exactly the
\* interactions of the file selected by `interactions`: all of them for
\* "all", none for "none", those with from = n or to = n for an integer n;
\* every site and every bond of the file is drawn whatever the selection.
C10_PlotDrawsSelected ==
    ldfPc = "returned" =>
        /\ Len(arrows) = Cardinality(DocSelectedLines)
        /\ Len(texts) = Len(arrows)
        /\ \A f \in SiteIds, t \in SiteIds :
              ArrowCount(f, t) =
                 Cardinality({i \in DocSelectedLines :
                                 ldfFile[i].from = f /\ ldfFile[i].to = t})
        /\ \A k \in 1..Len(arrows) :
              texts[k] = Midpoint2(arrows[k][1], arrows[k][2])
        /\ Len(scatter) = Cardinality(FileSiteLines)
        /\ Len(lines3D) = Cardinality(FileBondLines)

\* An integer selection that draws one interaction through its `to` end and
\* skips another one.
C10_Witness ==
    /\ ldfPc = "returned"
    /\ interactions.kind = "int"
    /\ Len(arrows) = 1
    /\ Len(interacs) = 2
    /\ \E i \in 1..2 : interacs[i].to = interactions.n /\ interacs[i].from # interactions.n

-----------------------------------------------------------------------------
(***************************************************************************)
(* test_eval.py : recursive comparison of two HDF5 files                   *)
(*                                                                         *)
(* Numbers are kept in units of 1e-6. An array is a one-dimensional        *)
(* sequence; a scalar attribute is an array of length 1 (numpy broadcasts  *)
(* both the same way). A path is the sequence of member names from the     *)
(* root group.                                                             *)
(***************************************************************************)

\* tolerance = 1e-5, the default of compare.
DefaultTolerance == 10

Abs(x) == IF x < 0 THEN -x ELSE x

MaxOf(S) == CHOOSE m \in S : \A x \in S : x <= m

\* numpy broadcasting of two one-dimensional shapes.
Broadcastable(x, y) == Len(x) = Len(y) \/ Len(x) = 1 \/ Len(y) = 1

BroadcastAt(x, i) == IF Len(x) = 1 THEN x[1] ELSE x[i]

\* np.max(np.abs(x - y)) for broadcastable x and y (lines 20 and 28).
MaxAbsDeviation(x, y) ==
    MaxOf({Abs(BroadcastAt(x, i) - BroadcastAt(y, i)) :
              i \in 1..(IF Len(x) > Len(y) THEN Len(x) ELSE Len(y))})

\* HDF5 nodes. attrs is the list of (name, value) in iteration order, members
\* the list of member names in iteration order.
Attr(name, value) == [name |-> name, value |-> value]

Group(attrs, members) ==
    [kind |-> "group", attrs |-> attrs, members |-> members, data |-> <<>>]

Dataset(data, attrs) ==
    [kind |-> "dataset", attrs |-> attrs, members |-> <<>>, data |-> data]

\* len(obj): number of members of a group, first dimension of a dataset.
LenOf(node) == IF node.kind = "group" THEN Len(node.members) ELSE Len(node.data)

HasAttr(node, name) == \E i \in 1..Len(node.attrs) : node.attrs[i].name = name

AttrOf(node, name) ==
    node.attrs[CHOOSE i \in 1..Len(node.attrs) : node.attrs[i].name = name].value

\* The arrays written into the slots of a file of the model.
BaseArray == <<0, 0, 0>>

ArrayVariants ==
    { <<0, 0, 0>>,      \* equal
      <<0, 4, 0>>,      \* deviation 4e-6, below the default tolerance
      <<0, 20, 0>>,     \* deviation 2e-5, above the default tolerance
      <<0>>,            \* other shape, broadcastable, same value
      <<0, 0>> }        \* other shape, not broadcastable

\* Structural variants of a file.
Shapes == {"same", "noRootAttr", "renamedAttr", "noMember", "renamedMember",
           "kindSwap"}

\* A file:  /        group, attribute a, members d and g
\*          /d       dataset with attribute u
\*          /g       group, attribute b, member e
\*          /g/e     dataset
MkFile(v, shape) ==
    LET root == Group(IF shape = "noRootAttr" THEN <<>>
                      ELSE <<Attr(IF shape = "renamedAttr" THEN "z" ELSE "a", v.a)>>,
                      IF shape = "renamedMember" THEN <<"g", "x">> ELSE <<"d", "g">>)
        d == Dataset(v.d, <<Attr("u", v.u)>>)
        g == Group(<<Attr("b", v.b)>>, IF shape = "noMember" THEN <<>> ELSE <<"e">>)
        e == IF shape = "kindSwap" THEN Group(<<>>, <<>>) ELSE Dataset(v.e, <<>>)
        dName == IF shape = "renamedMember" THEN "x" ELSE "d"
    IN  IF shape = "noMember"
        THEN (<<>> :> root) @@ (<<dName>> :> d) @@ (<<"g">> :> g)
        ELSE (<<>> :> root) @@ (<<dName>> :> d) @@ (<<"g">> :> g)
             @@ (<<"g", "e">> :> e)

BaseFile == MkFile([a |-> BaseArray, d |-> BaseArray, u |-> BaseArray,
                    b |-> BaseArray, e |-> BaseArray], "same")

VariantFiles ==
    {MkFile(v, shape) : v \in [{"a", "d", "u", "b", "e"} -> ArrayVariants],
                        shape \in Shapes}

\* Command lines: sys.argv[1], len(sys.argv), and the two object paths.
Argvs ==
    {[mode |-> "FILE", n |-> 4, object1 |-> <<>>, object2 |-> <<>>],
     [mode |-> "FILE", n |-> 3, object1 |-> <<>>, object2 |-> <<>>],
     [mode |-> "OBJECT", n |-> 4, object1 |-> <<>>, object2 |-> <<>>],
     [mode |-> "OBJECT", n |-> 6, object1 |-> <<"d">>, object2 |-> <<"d">>],
     [mode |-> "OBJECT", n |-> 6, object1 |-> <<"g">>, object2 |-> <<"g">>],
     [mode |-> "OBJECT", n |-> 6, object1 |-> <<"d">>, object2 |-> <<"g", "e">>],
     [mode |-> "CHECK", n |-> 4, object1 |-> <<>>, object2 |-> <<>>],
     [mode |-> "", n |-> 1, object1 |-> <<>>, object2 |-> <<>>]}

EvalInit ==
    /\ argv \in Argvs
    /\ \E variant \in VariantFiles, swap \in BOOLEAN :
          /\ f1 = IF swap THEN variant ELSE BaseFile
          /\ f2 = IF swap THEN BaseFile ELSE variant
    /\ callStack = <<>>
    /\ exitCode = -1
    /\ exitMsg = [what |-> "none"]
    /\ evalPc = "args"
    /\ LdfIdle
    /\ ObsIdle
    /\ QueryIdle

Exit(code, msg) ==
    /\ exitCode' = code
    /\ exitMsg' = msg
    /\ evalPc' = "exit"
    /\ callStack' = <<>>

Call(path1, path2, tolerance) ==
    [obj1 |-> path1, obj2 |-> path2, tolerance |-> tolerance]

\* Lines 5-11: the usage checks.
CheckArgs ==
    /\ evalPc = "args"
    /\ IF \/ argv.n < 2
          \/ argv.mode = "FILE" /\ argv.n # 4
          \/ argv.mode = "OBJECT" /\ argv.n # 6
          \/ argv.mode \notin {"FILE", "OBJECT"}
       THEN Exit(1, [what |-> "usage"])
       ELSE /\ evalPc' = "run"
            /\ UNCHANGED <<callStack, exitCode, exitMsg>>
    /\ UNCHANGED <<argv, f1, f2>>
    /\ UNCHANGED notEval

\* Lines 32-39: open the files and call compare with the default tolerance.
\* f1[object1] and f2[object2] raise KeyError for a path the file lacks.
RunComparisons ==
    /\ evalPc = "run"
    /\ IF argv.mode = "FILE"
       THEN /\ callStack' = <<Call(<<>>, <<>>, DefaultTolerance)>>
            /\ evalPc' = "compare"
            /\ UNCHANGED <<exitCode, exitMsg>>
       ELSE IF argv.object1 \in DOMAIN f1 /\ argv.object2 \in DOMAIN f2
            THEN /\ callStack' = <<Call(argv.object1, argv.object2, DefaultTolerance)>>
                 /\ evalPc' = "compare"
                 /\ UNCHANGED <<exitCode, exitMsg>>
            ELSE Exit(1, [what |-> "traceback"])
    /\ UNCHANGED <<argv, f1, f2>>
    /\ UNCHANGED notEval

\* Index of the first attribute of obj1 (line 19-21) that ends the run: its
\* name is missing in obj2 (KeyError), the shapes cannot be broadcast
\* (ValueError) or the deviation is not below the tolerance; 0 if none.
AttrStops(o1, o2, i, tolerance) ==
    \/ ~HasAttr(o2, o1.attrs[i].name)
    \/ ~Broadcastable(o1.attrs[i].value, AttrOf(o2, o1.attrs[i].name))
    \/ ~(MaxAbsDeviation(o1.attrs[i].value, AttrOf(o2, o1.attrs[i].name)) < tolerance)

FirstBadAttr(o1, o2, tolerance) ==
    IF \E i \in 1..Len(o1.attrs) : AttrStops(o1, o2, i, tolerance)
    THEN CHOOSE i \in 1..Len(o1.attrs) :
            /\ AttrStops(o1, o2, i, tolerance)
            /\ \A j \in 1..(i - 1) : ~AttrStops(o1, o2, j, tolerance)
    ELSE 0

\* Lines 24-25: compare(obj1[k], obj2[k]) for k in obj1.keys(). The
\* tolerance argument is not passed, so each call runs with the default.
MemberCalls(frame, o1) ==
    [i \in 1..Len(o1.members) |->
        Call(Append(frame.obj1, o1.members[i]), Append(frame.obj2, o1.members[i]),
             DefaultTolerance)]

\* Lines 15-25: the body of compare for a group, up to the recursive calls.
CompareGroup ==
    /\ evalPc = "compare"
    /\ callStack # <<>>
    /\ LET frame == Head(callStack) IN
       /\ frame.obj1 \in DOMAIN f1
       /\ frame.obj2 \in DOMAIN f2
       /\ f1[frame.obj1].kind = "group"
       /\ LET o1 == f1[frame.obj1]
              o2 == f2[frame.obj2]
              bad == FirstBadAttr(o1, o2, frame.tolerance)
          IN  IF Len(o1.attrs) # Len(o2.attrs)
              THEN Exit(1, [what |-> "Number of attributes differs",
                            path |-> frame.obj1])
              ELSE IF bad # 0
              THEN IF /\ HasAttr(o2, o1.attrs[bad].name)
                      /\ Broadcastable(o1.attrs[bad].value,
                                       AttrOf(o2, o1.attrs[bad].name))
                   THEN Exit(1, [what |-> "Deviation found in attribute",
                                 path |-> frame.obj1, key |-> o1.attrs[bad].name])
                   ELSE Exit(1, [what |-> "traceback"])
              ELSE IF Len(o1.members) # LenOf(o2)
              THEN Exit(1, [what |-> "Number of datasets differs",
                            path |-> frame.obj1])
              ELSE /\ callStack' = MemberCalls(frame, o1) \o Tail(callStack)
                   /\ UNCHANGED <<exitCode, exitMsg, evalPc>>
    /\ UNCHANGED <<argv, f1, f2>>
    /\ UNCHANGED notEval

\* Lines 26-29: the body of compare for a dataset. obj2[:] of a group raises.
CompareDataset ==
    /\ evalPc = "compare"
    /\ callStack # <<>>
    /\ LET frame == Head(callStack) IN
       /\ frame.obj1 \in DOMAIN f1
       /\ frame.obj2 \in DOMAIN f2
       /\ f1[frame.obj1].kind = "dataset"
       /\ LET o1 == f1[frame.obj1]
              o2 == f2[frame.obj2]
          IN  IF o2.kind # "dataset" \/ ~Broadcastable(o1.data, o2.data)
              THEN Exit(1, [what |-> "traceback"])
              ELSE IF ~(MaxAbsDeviation(o1.data, o2.data) < frame.tolerance)
              THEN Exit(1, [what |-> "Deviation found in dataset",
                            path |-> frame.obj1])
              ELSE /\ callStack' = Tail(callStack)
                   /\ UNCHANGED <<exitCode, exitMsg, evalPc>>
    /\ UNCHANGED <<argv, f1, f2>>
    /\ UNCHANGED notEval

\* Line 25: obj2[k] raises KeyError when obj2 has no member k (obj2 is a
\* group with other names, or a dataset).
MemberMissing ==
    /\ evalPc = "compare"
    /\ callStack # <<>>
    /\ Head(callStack).obj2 \notin DOMAIN f2
    /\ Exit(1, [what |-> "traceback"])
    /\ UNCHANGED <<argv, f1, f2>>
    /\ UNCHANGED notEval

\* Lines 41-42: every call of compare has returned.
Success ==
    /\ evalPc = "compare"
    /\ callStack = <<>>
    /\ exitCode' = 0
    /\ exitMsg' = [what |-> "success"]
    /\ evalPc' = "exit"
    /\ UNCHANGED <<argv, f1, f2, callStack>>
    /\ UNCHANGED notEval

EvalNext ==
    \/ CheckArgs
    \/ RunComparisons
    \/ CompareGroup
    \/ CompareDataset
    \/ MemberMissing
    \/ Success

SpecEval == EvalInit /\ [][EvalNext]_vars

-----------------------------------------------------------------------------
(* Claims about test_eval.py *)

IsPrefix(p, q) == Len(p) <= Len(q) /\ SubSeq(q, 1, Len(p)) = p

\* The object of f2 that compare pairs with the object q of f1, for a run that
\* starts at (root1, root2).
Counterpart(root1, root2, q) == root2 \o SubSeq(q, Len(root1) + 1, Len(q))

\* The objects of f1 at every depth below the first argument of the run,
\* that have a counterpart in f2 of the same kind.
PairedObjects ==
    {q \in DOMAIN f1 :
        /\ IsPrefix(argv.object1, q)
        /\ Counterpart(argv.object1, argv.object2, q) \in DOMAIN f2
        /\ f2[Counterpart(argv.object1, argv.object2, q)].kind = f1[q].kind}

Partner(q) == f2[Counterpart(argv.object1, argv.object2, q)]

\* C8 (as claimed): a run that exits 0 has found every attribute and every
\* dataset, at every depth below obj1, within the tolerance of its
\* counterpart: an attribute of a group or of a dataset, or the data of a
\* dataset, of the same shape and with maximum absolute deviation >= the
\* tolerance makes the run exit non-zero.
C8_ExitZeroMeansAllWithinTolerance ==
    (evalPc = "exit" /\ exitCode = 0) =>
        \A q \in PairedObjects :
            /\ \A i \in 1..Len(f1[q].attrs) :
                  LET name == f1[q].attrs[i].name
                      x == f1[q].attrs[i].value
                  IN  (HasAttr(Partner(q), name) /\ Len(AttrOf(Partner(q), name)) = Len(x))
                         => MaxAbsDeviation(x, AttrOf(Partner(q), name)) < DefaultTolerance
            /\ (f1[q].kind = "dataset" /\ Len(Partner(q).data) = Len(f1[q].data))
                  => MaxAbsDeviation(f1[q].data, Partner(q).data) < DefaultTolerance

\* C9 (as claimed): a run that exits 0 has met no attribute of a group and no
\* dataset whose shape differs from the shape of its counterpart at the same
\* path.
C9_ExitZeroMeansSameShapes ==
    (evalPc = "exit" /\ exitCode = 0) =>
        \A q \in PairedObjects :
            /\ f1[q].kind = "group" =>
                  \A i \in 1..Len(f1[q].attrs) :
                      HasAttr(Partner(q), f1[q].attrs[i].name) =>
                          Len(AttrOf(Partner(q), f1[q].attrs[i].name))
                             = Len(f1[q].attrs[i].value)
            /\ f1[q].kind = "dataset" => Len(Partner(q).data) = Len(f1[q].data)

-----------------------------------------------------------------------------
(***************************************************************************)
(* test_python_obs.py : the scripted test of spinparser.obs                *)
(*                                                                         *)
(* Lattice geometry. The fixture is a honeycomb lattice; a position        *)
(* [x, y, z] is kept as the integer triple <<a, b, c>> with                *)
(*     x = a / 2,   y = b * 0.8660254,   z = c,                            *)
(* so that squared distances are integers:                                 *)
(*     4 * |p - q|^2 = (a_p - a_q)^2 + 3 (b_p - b_q)^2 + 4 (c_p - c_q)^2.  *)
(***************************************************************************)

\* reference of the getLatticeBasis test: [[0,0,0],[1,0,0]].
RefBasis == << <<0, 0, 0>>, <<2, 0, 0>> >>

\* reference of the getLatticePrimitives test:
\* [[1.5,0.8660254,0],[1.5,-0.8660254,0],[0,0,1]].
RefPrimitives == << <<3, 1, 0>>, <<3, -1, 0>>, <<0, 0, 1>> >>

\* reference of the first getLatticeSites test (anchor [0,0,0]), in order.
RefSites0 ==
    << <<0, 0, 0>>, <<-1, 1, 0>>, <<0, 2, 0>>, <<-1, 3, 0>>, <<-4, 0, 0>>,
       <<3, 1, 0>>, <<3, -1, 0>>, <<-3, -1, 0>>, <<0, -2, 0>>, <<-3, 1, 0>>,
       <<-1, -1, 0>>, <<2, 0, 0>>, <<5, 1, 0>>, <<2, 2, 0>>, <<5, -1, 0>>,
       <<2, -2, 0>>, <<-4, -2, 0>>, <<-1, -3, 0>>, <<-4, 2, 0>> >>

\* reference of the second getLatticeSites test (anchor [1,0,0]), in order.
\* Mutant of RefSites1: the expected list with its second entry pasted over
\* the third.
RefSites1Repeated ==
    << <<2, 0, 0>>, <<0, 0, 0>>, <<0, 0, 0>>, <<3, -1, 0>>, <<-1, -1, 0>>,
       <<-1, 1, 0>>, <<5, 1, 0>>, <<2, 2, 0>>, <<5, -1, 0>>, <<2, -2, 0>>,
       <<-3, -1, 0>>, <<0, -2, 0>>, <<-3, 1, 0>>, <<0, 2, 0>>, <<6, 2, 0>>,
       <<6, 0, 0>>, <<3, 3, 0>>, <<6, -2, 0>>, <<3, -3, 0>> >>

RefSites1 ==
    << <<2, 0, 0>>, <<0, 0, 0>>, <<3, 1, 0>>, <<3, -1, 0>>, <<-1, -1, 0>>,
       <<-1, 1, 0>>, <<5, 1, 0>>, <<2, 2, 0>>, <<5, -1, 0>>, <<2, -2, 0>>,
       <<-3, -1, 0>>, <<0, -2, 0>>, <<-3, 1, 0>>, <<0, 2, 0>>, <<6, 2, 0>>,
       <<6, 0, 0>>, <<3, 3, 0>>, <<6, -2, 0>>, <<3, -3, 0>> >>

\* Four times the squared Euclidean distance of two positions.
Dist2x4(p, q) ==
    (p[1] - q[1]) * (p[1] - q[1])
    + 3 * (p[2] - q[2]) * (p[2] - q[2])
    + 4 * (p[3] - q[3]) * (p[3] - q[3])

\* Cartesian coordinates in units of 1e-7.
Cartesian(p) == <<5000000 * p[1], 8660254 * p[2], 10000000 * p[3]>>

Translate(p, v, n) == <<p[1] + n * v[1], p[2] + n * v[2], p[3] + n * v[3]>>

\* Lexicographic order of coordinates.
LexLess(p, q) ==
    \/ p[1] < q[1]
    \/ p[1] = q[1] /\ p[2] < q[2]
    \/ p[1] = q[1] /\ p[2] = q[2] /\ p[3] < q[3]


(***************************************************************************)
(* Decimal numbers. The correlation values of the test are kept exactly as *)
(* written: Dec(m, e) is m * 10^-e, with 100000 <= |m| < 1000000 (six      *)
(* significant digits) or m = 0.                                           *)
(***************************************************************************)
Dec(m, e) == [m |-> m, e |-> e]

Pow10(n) == IF n = 0 THEN 1 ELSE IF n = 1 THEN 10 ELSE 100

\* |d - r| <= atol + 1e-5 * |r| for integers d, r of one scale, with
\* atolE5 = atol * 1e5 in that scale. |r| stays below 1e8 - atolE5, so a
\* difference above 1000 is never close.
CloseInt(d, r, atolE5) ==
    IF Abs(d - r) > 1000 THEN FALSE
    ELSE Abs(d - r) * 100000 <= atolE5 + Abs(r)

\* np.isclose(d, r, atol=1e-16) for decimals. With |e_d - e_r| >= 2 the two
\* differ by a factor above 3; atol * 1e5 is below 1 up to exponent 10.
IsCloseDec(d, r) ==
    IF d.m = 0 \/ r.m = 0 THEN d.m = 0 /\ r.m = 0
    ELSE IF Abs(d.e - r.e) > 1 THEN FALSE
    ELSE LET e == IF d.e > r.e THEN d.e ELSE r.e
         IN  CloseInt(d.m * Pow10(e - d.e), r.m * Pow10(e - r.e),
                      IF e >= 11 THEN Pow10(e - 11) ELSE 0)

\* np.isclose(p, r) for two positions: default atol = 1e-8, that is 0.1 in
\* units of 1e-7.
IsClosePos(p, r) ==
    \A i \in 1..3 : CloseInt(Cartesian(p)[i], Cartesian(r)[i], 10000)

\* reference of the getCorrelation test with component='all' (line 36).
RefCorrAll ==
    << Dec(0, 0), Dec(-950785, 11), Dec(-439011, 10), Dec(-116698, 9),
       Dec(-250599, 9), Dec(-482914, 9), Dec(-874231, 9), Dec(-152250, 8),
       Dec(-257785, 8), Dec(-429219, 8), Dec(-706185, 8), Dec(-115148, 7),
       Dec(-156193, 7), Dec(-186610, 7), Dec(-225649, 7), Dec(-277352, 7),
       Dec(-347753, 7), Dec(-445845, 7), Dec(-585239, 7), Dec(-786823, 7),
       Dec(-107199, 6), Dec(-148879, 6), Dec(-203808, 6), Dec(-235261, 6),
       Dec(-273202, 6), Dec(-318908, 6), Dec(-373880, 6), Dec(-440613, 6),
       Dec(-522831, 6), Dec(-624065, 6), Dec(-731935, 6), Dec(-828863, 6),
       Dec(-911171, 6), Dec(-974795, 6) >>

\* reference of the getCorrelation test with component='XX' (line 40).
RefCorrXX ==
    << Dec(0, 0), Dec(-316928, 11), Dec(-146337, 10), Dec(-388993, 10),
       Dec(-835329, 10), Dec(-160971, 9), Dec(-291410, 9), Dec(-507499, 9),
       Dec(-859284, 9), Dec(-143073, 8), Dec(-235395, 8), Dec(-383827, 8),
       Dec(-520645, 8), Dec(-622034, 8), Dec(-752163, 8), Dec(-924508, 8),
       Dec(-115918, 7), Dec(-148615, 7), Dec(-195080, 7), Dec(-262274, 7),
       Dec(-357330, 7), Dec(-496263, 7), Dec(-679361, 7), Dec(-784205, 7),
       Dec(-910672, 7), Dec(-106303, 6), Dec(-124627, 6), Dec(-146871, 6),
       Dec(-174277, 6), Dec(-208022, 6), Dec(-243978, 6), Dec(-276288, 6),
       Dec(-303724, 6), Dec(-324932, 6) >>

\* reference of the getCorrelation test with cutoff=0.309031, site="all",
\* component='ZZ' (line 44).
RefCorrZZ ==
    << Dec(686557, 6), Dec(-324932, 6), Dec(877276, 7), Dec(-207016, 7),
       Dec(-392286, 7), Dec(877276, 7), Dec(877276, 7), Dec(877276, 7),
       Dec(877276, 7), Dec(877276, 7), Dec(-324932, 6), Dec(-324932, 6),
       Dec(-207016, 7), Dec(-392286, 7), Dec(-207016, 7), Dec(-392286, 7),
       Dec(-207016, 7), Dec(-207016, 7), Dec(-207016, 7) >>

\* reference of the getCorrelation test with two cutoffs and two sites
\* (line 48).
RefCorrList ==
    << Dec(-276288, 6), Dec(681969, 7), Dec(-924508, 8), Dec(463789, 9) >>

\* reference of the getStructureFactor test (line 54).
RefStructureFactor ==
    << Dec(266215, 7), Dec(456356, 5) >>

-----------------------------------------------------------------------------
(***************************************************************************)
(* spinparser.obs as the specification describes it (sections 4.2 - 4.4).  *)
(* The module itself is not among the sources; these operators give what a *)
(* Reconstructor / Extractor / StructureFactorComputer written to the      *)
(* specification returns on the fixture of the test.                       *)
(***************************************************************************)

\* Largest search window (integer offsets -w..w along each primitive vector).
MaxWindow == 1

Offsets(w) == [1..3 -> (-w)..w]

Image(site, primitiveVectors, n) ==
    Translate(Translate(Translate(site, primitiveVectors[1], n[1]),
                        primitiveVectors[2], n[2]),
              primitiveVectors[3], n[3])

\* Order of section 4.2: ascending distance from the anchor, ties by
\* lexicographic order of coordinates.
NearerThan(p, q, anchor) ==
    \/ Dist2x4(p, anchor) < Dist2x4(q, anchor)
    \/ Dist2x4(p, anchor) = Dist2x4(q, anchor) /\ LexLess(p, q)

RECURSIVE SortByDistance(_, _)
SortByDistance(S, anchor) ==
    IF S = {} THEN <<>>
    ELSE LET first == CHOOSE p \in S :
                         \A q \in S : q = p \/ NearerThan(p, q, anchor)
         IN  <<first>> \o SortByDistance(S \ {first}, anchor)

\* The translated images of the stored sites, one per (site, offset), before
\* deduplication.
RawImages(siteCoordinates, primitiveVectors, w) ==
    LET side == 2 * w + 1
        k == side * side * side
        offset(j) == <<(j \div (side * side)) - w, ((j \div side) % side) - w,
                       (j % side) - w>>
    IN  [i \in 1..(Len(siteCoordinates) * k) |->
            Image(siteCoordinates[((i - 1) \div k) + 1], primitiveVectors,
                  offset((i - 1) % k))]

\* Two positions coincide within the tolerance 1e-6: 4 * 1e-12 < 1, so the
\* integer 4|p-q|^2 is within it only when it is 0.
Coincide(p, q) == Dist2x4(p, q) = 0

\* expand(siteCoordinates, primitiveVectors, anchor) of section 4.2 with the
\* search window w: images, deduplicated, sorted.
SpecExpand(siteCoordinates, primitiveVectors, anchor, w) ==
    SortByDistance({Image(site, primitiveVectors, n) :
                        site \in Range(siteCoordinates), n \in Offsets(w)},
                   anchor)

\* The correlation container as section 3 describes it: one 3x3 tensor per
\* (reference, target), here isotropic and a function of the shell of the
\* target around the reference, with the values of line 44 of the test.
\* Targets outside the plane of the reference or beyond the stored shells
\* have no entry.
HasTensor(reference, target) ==
    /\ target[3] = reference[3]
    /\ Dist2x4(reference, target) \in {0, 4, 12, 16, 28}

ShellValue(d4) ==
    CASE d4 = 0 -> Dec(686557, 6)
      [] d4 = 4 -> Dec(-324932, 6)
      [] d4 = 12 -> Dec(877276, 7)
      [] d4 = 16 -> Dec(-392286, 7)
      [] d4 = 28 -> Dec(-207016, 7)

SpecTensor(reference, target) ==
    LET v == ShellValue(Dist2x4(reference, target))
        z == Dec(0, 0)
    IN  << <<v, z, z>>, <<z, v, z>>, <<z, z, v>> >>

\* Index of a spin component label: "XX" -> <<1, 1>>, ... , "ZZ" -> <<3, 3>>.
AxisIndex(c) == CASE c = "X" -> 1 [] c = "Y" -> 2 [] c = "Z" -> 3

Components == {"XX", "XY", "XZ", "YX", "YY", "YZ", "ZX", "ZY", "ZZ"}

ComponentIndex(component) ==
    <<AxisIndex(SubSeq(component, 1, 1)), AxisIndex(SubSeq(component, 2, 2))>>

\* distance(reference, target) <= cutoff, the cutoff in units of 1e-6:
\* 4 d^2 * 1e12 <= (2 cutoff)^2, evaluated without leaving 32 bits
\* (2 cutoff = 1000 q + r).
SpecWithinCutoff(reference, target, cutoff) ==
    LET q == (2 * cutoff) \div 1000
        r == (2 * cutoff) % 1000
        excess == Dist2x4(reference, target) * 1000000 - q * q
    IN  IF excess <= 0 THEN TRUE
        ELSE IF excess > 10000 THEN FALSE
        ELSE excess * 1000 <= 2 * q * r + (r * r) \div 1000

\* Cutoff argument: "all", one scalar, or a list paired with the targets.
CutoffAll == [kind |-> "all", values |-> <<>>]
CutoffScalar(c) == [kind |-> "scalar", values |-> <<c>>]
CutoffList(cs) == [kind |-> "list", values |-> cs]

\* Site argument: "all", or explicit positions (one, or a list).
SiteAll == [kind |-> "all", positions |-> <<>>]
SiteList(ps) == [kind |-> "list", positions |-> ps]

\* The sites stored for an anchor: the cluster of 19 sites the test lists.
ClusterOf(anchor) == IF anchor = RefBasis[1] THEN RefSites0 ELSE RefSites1

\* getLatticeSites(file, anchor) of the specification on the fixture: the
\* stored cluster, deduplicated and sorted (no translation is needed to
\* reach every stored shell).
SpecGetLatticeSites(anchor) == SpecExpand(ClusterOf(anchor), RefPrimitives, anchor, 0)

\* Whether target number i passes the cutoff policy of section 4.3.
SpecPasses(cutoff, reference, targets, i) ==
    /\ HasTensor(reference, targets[i])
    /\ CASE cutoff.kind = "all" -> TRUE
         [] cutoff.kind = "scalar" ->
                SpecWithinCutoff(reference, targets[i], cutoff.values[1])
         [] cutoff.kind = "list" ->
                SpecWithinCutoff(reference, targets[i], cutoff.values[i])

\* The indices of the targets that pass, in order.
PassingIndices(cutoff, reference, targets) ==
    LET F[i \in 0..Len(targets)] ==
            IF i = 0 THEN <<>>
            ELSE IF SpecPasses(cutoff, reference, targets, i)
                 THEN Append(F[i - 1], i) ELSE F[i - 1]
    IN  F[Len(targets)]

\* getCorrelation of section 4.3: the surviving targets in order, each with
\* its scalar (named component) or its 3x3 matrix (component "all").
SpecGetCorrelation(cutoff, site, reference, component) ==
    LET targets == IF site.kind = "all" THEN SpecGetLatticeSites(reference)
                   ELSE site.positions
        passing == PassingIndices(cutoff, reference, targets)
    IN  [j \in 1..Len(passing) |->
            LET t == SpecTensor(reference, targets[passing[j]])
            IN  IF component = "all" THEN t
                ELSE t[ComponentIndex(component)[1]][ComponentIndex(component)[2]]]

\* numpy's flatten of a getCorrelation result.
RECURSIVE Flatten(_, _)
Flatten(result, component) ==
    IF result = <<>> THEN <<>>
    ELSE (IF component = "all"
          THEN Head(result)[1] \o Head(result)[2] \o Head(result)[3]
          ELSE <<Head(result)>>) \o Flatten(Tail(result), component)

\* A decimal with e <= 7 in units of 1e-7.
Fixed7(d) == IF d.m = 0 THEN 0 ELSE d.m * (IF d.e = 7 THEN 1 ELSE IF d.e = 6 THEN 10 ELSE 100)

\* The scalar a correlation contributes to a sum: the component, or the trace
\* of the tensor for "all".
Contribution(t, component) ==
    IF component = "all" THEN Fixed7(t[1][1]) + Fixed7(t[2][2]) + Fixed7(t[3][3])
    ELSE Fixed7(t[ComponentIndex(component)[1]][ComponentIndex(component)[2]])

\* Momentum points of the test: k = [kappa * 4.188790, 0, 0] = kappa * 4 pi/3
\* along x. With x = a/2 the phase k.(target - reference) is kappa * a * 2 pi/3.

\* Mutant of SpecCos2: the sine of the phase (0 at zero momentum).
SpecSin2(kappa, reference, target) ==
    IF (kappa * (target[1] - reference[1])) % 3 = 0 THEN 0 ELSE 1

\* Twice cos(k . (target - reference)).
SpecCos2(kappa, reference, target) ==
    IF (kappa * (target[1] - reference[1])) % 3 = 0 THEN 2 ELSE -1

RECURSIVE SumSeq(_)
SumSeq(xs) == IF xs = <<>> THEN 0 ELSE Head(xs) + SumSeq(Tail(xs))

\* Section 4.4: twice S(k) in units of 1e-7, the sum over the pairs
\* (reference, target) that survive the cutoff policy of section 4.3 of
\* correlation * cos(k . (target - reference)).
SpecStructureFactor2(kappa, cutoff, component) ==
    SumSeq([b \in 1..Len(RefBasis) |->
        LET reference == RefBasis[b]
            targets == SpecGetLatticeSites(reference)
        IN  SumSeq([i \in 1..Len(targets) |->
                IF SpecPasses(cutoff, reference, targets, i)
                THEN Contribution(SpecTensor(reference, targets[i]), component)
                     * SpecCos2(kappa, reference, targets[i])
                ELSE 0])])

-----------------------------------------------------------------------------
(***************************************************************************)
(* The test script. spinparser.obs is not among the sources, so each call  *)
(* of it returns one of a set of candidate results: what the test expects, *)
(* what the specification's components return, and near misses. The script *)
(* goes on only with a result np.isclose accepts.                          *)
(***************************************************************************)

\* The nine calls of the script, in order.
TestQuery(n) ==
    CASE n = 1 -> [fn |-> "getLatticeBasis", name |-> "getLatticeBasis",
                   kind |-> "positions", expect |-> RefBasis]
      [] n = 2 -> [fn |-> "getLatticePrimitives", name |-> "getLatticePrimitives",
                   kind |-> "positions", expect |-> RefPrimitives]
      [] n = 3 -> [fn |-> "getLatticeSites", name |-> "getLatticeSites",
                   kind |-> "positions", expect |-> RefSites0,
                   anchor |-> RefBasis[1]]
      [] n = 4 -> [fn |-> "getLatticeSites", name |-> "getLatticeSites",
                   kind |-> "positions", expect |-> RefSites1,
                   anchor |-> RefBasis[2]]
      [] n = 5 -> [fn |-> "getCorrelation", name |-> "getCorrelation",
                   kind |-> "scalars", expect |-> RefCorrAll,
                   cutoff |-> CutoffAll, site |-> SiteList(<<RefBasis[2]>>),
                   reference |-> RefBasis[1], component |-> "all"]
      [] n = 6 -> [fn |-> "getCorrelation", name |-> "getCorrelation",
                   kind |-> "scalars", expect |-> RefCorrXX,
                   cutoff |-> CutoffAll, site |-> SiteList(<<RefBasis[2]>>),
                   reference |-> RefBasis[1], component |-> "XX"]
      [] n = 7 -> [fn |-> "getCorrelation", name |-> "getCorrelation",
                   kind |-> "scalars", expect |-> RefCorrZZ,
                   cutoff |-> CutoffScalar(309031), site |-> SiteAll,
                   reference |-> RefBasis[1], component |-> "ZZ"]
      [] n = 8 -> [fn |-> "getCorrelation", name |-> "getCorrelation",
                   kind |-> "scalars", expect |-> RefCorrList,
                   cutoff |-> CutoffList(<<381520, 2058910>>),
                   site |-> SiteList(<< <<0, 0, 0>>, <<5, 1, 0>> >>),
                   reference |-> RefBasis[2], component |-> "ZZ"]
      [] n = 9 -> [fn |-> "getStructureFactor", name |-> "getStructureFactor",
                   kind |-> "scalars", expect |-> RefStructureFactor,
                   momentum |-> <<0, 1>>, cutoff |-> CutoffScalar(381520),
                   component |-> "all"]

LastTest == 9

\* A sequence with the entries i and i+1 exchanged.
SwapAdjacent(xs, i) ==
    [j \in 1..Len(xs) |-> IF j = i THEN xs[i + 1] ELSE IF j = i + 1 THEN xs[i] ELSE xs[j]]

\* A number m * 10^-e cut to six significant digits.
RECURSIVE SixDigits(_, _)
SixDigits(m, e) ==
    IF m = 0 THEN Dec(0, 0)
    ELSE IF Abs(m) >= 1000000 THEN SixDigits(m \div 10, e - 1)
    ELSE IF Abs(m) < 100000 THEN SixDigits(m * 10, e + 1)
    ELSE Dec(m, e)

\* What a call of obs may return.
Candidates(n) ==
    LET q == TestQuery(n) IN
    CASE q.fn = "getLatticeBasis" ->
            {RefBasis, <<RefBasis[2], RefBasis[1]>>, <<RefBasis[1]>>}
      [] q.fn = "getLatticePrimitives" ->
            {RefPrimitives, <<RefPrimitives[2], RefPrimitives[1], RefPrimitives[3]>>,
             <<RefPrimitives[1], RefPrimitives[2]>>}
      [] q.fn = "getLatticeSites" ->
            {RefSites0, RefSites1}
            \cup {SwapAdjacent(q.expect, i) : i \in 1..(Len(q.expect) - 1)}
            \cup {SpecGetLatticeSites(q.anchor)}
            \cup {SpecExpand(RefBasis, RefPrimitives, q.anchor, w) : w \in 0..MaxWindow}
            \cup {RawImages(ClusterOf(q.anchor), RefPrimitives, w) : w \in 1..MaxWindow}
      [] q.fn = "getCorrelation" ->
            {RefCorrAll, RefCorrXX, RefCorrZZ, RefCorrList,
             Flatten(SpecGetCorrelation(q.cutoff, q.site, q.reference, q.component),
                     q.component),
             Flatten(SpecGetCorrelation(CutoffAll, q.site, q.reference, q.component),
                     q.component)}
      [] q.fn = "getStructureFactor" ->
            {RefStructureFactor,
             <<RefStructureFactor[2], RefStructureFactor[1]>>,
             [i \in 1..Len(q.momentum) |->
                 SixDigits(SpecStructureFactor2(q.momentum[i], q.cutoff, q.component)
                              \div 2, 7)]}

\* Shapes (n, ...) and (m, ...) broadcast when n = m or one of them is 1.
RowsBroadcast(x, y) == Len(x) = Len(y) \/ Len(x) = 1 \/ Len(y) = 1

Row(x, i) == IF Len(x) = 1 THEN x[1] ELSE x[i]

\* Mutant of AllClose: `.all` without the call parentheses, a bound method
\* that is always true, so that only numpy's shape error stops the script.
AllCloseUncalled(x, y, kind) ==
    IF ~RowsBroadcast(x, y) THEN "error" ELSE "pass"

\* np.isclose(data, reference[, atol=1e-16]).all(): "error" stands for the
\* ValueError of shapes that do not broadcast.
AllClose(x, y, kind) ==
    IF ~RowsBroadcast(x, y) THEN "error"
    ELSE IF \A i \in 1..(IF Len(x) > Len(y) THEN Len(x) ELSE Len(y)) :
               IF kind = "positions" THEN IsClosePos(Row(x, i), Row(y, i))
               ELSE IsCloseDec(Row(x, i), Row(y, i))
    THEN "pass" ELSE "fail"

ObsInit ==
    /\ testNo = 1
    /\ obsReference = <<>>
    /\ obsData = <<>>
    /\ obsExit = -1
    /\ obsMsg = ""
    /\ obsPc = "call"
    /\ LdfIdle
    /\ EvalIdle
    /\ QueryIdle

\* reference = [...]; data = o.<fn>(file, ...)
CallObs ==
    /\ obsPc = "call"
    /\ testNo <= LastTest
    /\ obsReference' = TestQuery(testNo).expect
    /\ obsData' \in Candidates(testNo)
    /\ obsPc' = "check"
    /\ UNCHANGED <<testNo, obsExit, obsMsg>>
    /\ UNCHANGED notObs

\* np.isclose(data, reference).all() or sys.exit("Test ... failed."), then
\* print("Test ... passed.") after the last call of a test.
CheckIsClose ==
    /\ obsPc = "check"
    /\ LET verdict == AllClose(obsData, obsReference, TestQuery(testNo).kind) IN
       CASE verdict = "pass" ->
               /\ testNo' = testNo + 1
               /\ obsPc' = "call"
               /\ obsMsg' = IF testNo = LastTest
                               \/ TestQuery(testNo + 1).name # TestQuery(testNo).name
                            THEN "Test " \o TestQuery(testNo).name \o " passed."
                            ELSE obsMsg
               /\ UNCHANGED obsExit
         [] verdict = "fail" ->
               /\ obsExit' = 1
               /\ obsMsg' = "Test " \o TestQuery(testNo).name \o " failed."
               /\ obsPc' = "exit"
               /\ UNCHANGED testNo
         [] verdict = "error" ->
               /\ obsExit' = 1
               /\ obsMsg' = "ValueError"
               /\ obsPc' = "exit"
               /\ UNCHANGED testNo
    /\ UNCHANGED <<obsReference, obsData>>
    /\ UNCHANGED notObs

\* Line 60: sys.exit(0).
ObsSuccess ==
    /\ obsPc = "call"
    /\ testNo = LastTest + 1
    /\ obsExit' = 0
    /\ obsPc' = "exit"
    /\ UNCHANGED <<testNo, obsReference, obsData, obsMsg>>
    /\ UNCHANGED notObs

ObsNext ==
    \/ CallObs
    \/ CheckIsClose
    \/ ObsSuccess

SpecObs == ObsInit /\ [][ObsNext]_vars

-----------------------------------------------------------------------------
(***************************************************************************)
(* Claims about spinparser.obs, stated on the results the test accepts.    *)
(***************************************************************************)

\* The script holds in `data` the accepted result of test n.
AcceptedAt(n) == obsPc = "call" /\ testNo = n + 1

\* Distances from the anchor do not decrease along the sequence.
NonDecreasing(xs, anchor) ==
    \A i \in 1..(Len(xs) - 1) : Dist2x4(anchor, xs[i]) <= Dist2x4(anchor, xs[i + 1])

\* No entry of the sequence is farther from the anchor than the first one.
NearestFirst(xs, anchor) ==
    \A j \in 1..Len(xs) : Dist2x4(anchor, xs[1]) <= Dist2x4(anchor, xs[j])

\* Claim C1 as stated: the sequence getLatticeSites returns is sorted by
\* non-decreasing Euclidean distance from the anchor.
C1_SitesSortedByDistance ==
    /\ AcceptedAt(3) => NonDecreasing(obsData, TestQuery(3).anchor)
    /\ AcceptedAt(4) => NonDecreasing(obsData, TestQuery(4).anchor)

\* Claim C1, amended: the sequence getLatticeSites returns starts with the
\* entry nearest to the anchor (the anchor itself, at distance zero); the
\* entries after it are not ordered by distance.
C1_NearestSiteFirst ==
    /\ AcceptedAt(3) =>
          /\ NearestFirst(obsData, TestQuery(3).anchor)
          /\ Dist2x4(TestQuery(3).anchor, obsData[1]) = 0
    /\ AcceptedAt(4) =>
          /\ NearestFirst(obsData, TestQuery(4).anchor)
          /\ Dist2x4(TestQuery(4).anchor, obsData[1]) = 0

\* Both getLatticeSites calls were accepted, and the accepted sequence has a
\* farther site before a nearer one.
C1_Witness ==
    /\ AcceptedAt(4)
    /\ Len(obsData) > 1
    /\ ~NonDecreasing(obsData, TestQuery(4).anchor)

NumberWithin(anchor, cutoff) ==
    Cardinality({i \in 1..Len(ClusterOf(anchor)) :
                    SpecWithinCutoff(anchor, ClusterOf(anchor)[i], cutoff)})

\* Claim C2 as stated: with site="all" and a scalar cutoff c the result has
\* one entry for every target at distance <= c and none for the others.
C2_ScalarCutoffFiltersByDistance ==
    AcceptedAt(7) =>
        Len(obsData) = NumberWithin(TestQuery(7).reference, TestQuery(7).cutoff.values[1])

\* Claim C2, amended: with site="all" and a scalar cutoff c the result has
\* one entry for every site of getLatticeSites(reference), in that order,
\* whatever its distance: sites farther than c are not filtered out, and
\* sites at equal distance carry the same value.
C2_ScalarCutoffKeepsEverySite ==
    AcceptedAt(7) =>
        LET q == TestQuery(7)
            allSites == ClusterOf(q.reference)
        IN  /\ Len(obsData) = Len(allSites)
            /\ \E i \in 1..Len(allSites) :
                  ~SpecWithinCutoff(q.reference, allSites[i], q.cutoff.values[1])
            /\ \A i, j \in 1..Len(allSites) :
                  Dist2x4(q.reference, allSites[i]) = Dist2x4(q.reference, allSites[j])
                     => IsCloseDec(obsData[i], obsData[j])

\* The scalar-cutoff call was accepted with a non-zero value for a site
\* farther from the reference than the cutoff.
C2_Witness ==
    /\ AcceptedAt(7)
    /\ \E i \in 1..Len(obsData) :
          /\ i <= Len(RefSites0)
          /\ ~SpecWithinCutoff(TestQuery(7).reference, RefSites0[i],
                               TestQuery(7).cutoff.values[1])
          /\ obsData[i].m # 0

\* Claim C3 as stated: n cutoffs and n sites are paired positionally, so the
\* result has at most n values.
C3_ListsPairedPositionally ==
    AcceptedAt(8) => Len(obsData) <= Len(TestQuery(8).cutoff.values)

\* Claim C3, amended: n cutoffs and m sites give one value for every
\* (cutoff, site) combination, n * m values.
C3_ListsCombined ==
    AcceptedAt(8) =>
        Len(obsData) = Len(TestQuery(8).cutoff.values) * Len(TestQuery(8).site.positions)

\* The call with two cutoffs and two sites was accepted.
C3_Witness ==
    /\ AcceptedAt(8)
    /\ Len(TestQuery(8).cutoff.values) = 2
    /\ Len(TestQuery(8).site.positions) = 2
    /\ Len(obsData) > 2

\* Three times a decimal number.
Times3(d) == Dec(3 * d.m, d.e)

\* Claim C4 as stated: component="all" returns a full 3x3 matrix per
\* target, nine numbers for the one target of the call.
C4_AllReturnsMatrixPerTarget ==
    AcceptedAt(5) => Len(obsData) = 9 * Len(TestQuery(5).site.positions)

\* Claim C4, amended: component="all" returns one scalar where
\* component="XX" returns one, in the same shape, and in the test's
\* isotropic data that scalar is three times the XX value.
C4_AllReturnsScalarPerEntry ==
    /\ AcceptedAt(5) =>
          /\ Len(obsData) = Len(RefCorrXX)
          /\ \A i \in 1..Len(obsData) : IsCloseDec(Times3(RefCorrXX[i]), obsData[i])
    /\ AcceptedAt(6) =>
          /\ Len(obsData) = Len(RefCorrAll)
          /\ \A i \in 1..Len(obsData) : IsCloseDec(Times3(obsData[i]), RefCorrAll[i])

\* The component="XX" call was accepted after the component="all" call, for
\* the same target.
C4_Witness ==
    /\ AcceptedAt(6)
    /\ TestQuery(5).site = TestQuery(6).site
    /\ Len(obsData) > 9

\* The values for cutoff number k when the result lists cutoffs first
\* (layout 1) or targets first (layout 2).
ValuesOfCutoff(xs, k, nCutoffs, nTargets, layout) ==
    [t \in 1..nTargets |->
        IF layout = 1 THEN xs[(k - 1) * nTargets + t] ELSE xs[(t - 1) * nCutoffs + k]]

\* xs is a subsequence of ys (equal entries in the same order).
IsSubsequence(xs, ys) ==
    \E pick \in [1..Len(xs) -> 1..Len(ys)] :
        /\ \A i \in 1..(Len(xs) - 1) : pick[i] < pick[i + 1]
        /\ \A i \in 1..Len(xs) : ys[pick[i]] = xs[i]

\* Claim C6 as stated: for cutoffs c1 < c2 on the same reference and
\* targets, the values for c1 are a subsequence of the values for c2.
C6_SmallerCutoffIsSubsequence ==
    AcceptedAt(8) =>
        LET q == TestQuery(8)
            n == Len(q.cutoff.values)
            t == Len(q.site.positions)
        IN  /\ q.cutoff.values[1] < q.cutoff.values[2]
            /\ Len(obsData) = n * t =>
                  \E layout \in {1, 2} :
                      IsSubsequence(ValuesOfCutoff(obsData, 1, n, t, layout),
                                    ValuesOfCutoff(obsData, 2, n, t, layout))

\* Claim C6, amended: the values for two cutoffs c1 < c2 on the same
\* reference and targets are different numbers; no value for c1 recurs
\* among the values for c2.
C6_CutoffChangesValues ==
    AcceptedAt(8) =>
        /\ TestQuery(8).cutoff.values[1] < TestQuery(8).cutoff.values[2]
        /\ Len(obsData) = 4
        /\ \A i, j \in 1..Len(obsData) :
              i # j => ~IsCloseDec(obsData[i], obsData[j]) /\ obsData[i] # obsData[j]

\* The call with the cutoffs 0.381520 < 2.058910 was accepted and returned
\* values for both.
C6_Witness ==
    /\ AcceptedAt(8)
    /\ TestQuery(8).cutoff.values = <<381520, 2058910>>
    /\ obsData # <<>>

-----------------------------------------------------------------------------
(***************************************************************************)
(* A session of queries against the components of sections 4.3 and 4.4:    *)
(* getCorrelation for every reference site of the basis, then              *)
(* getStructureFactor with the same cutoff and component.                  *)
(***************************************************************************)

QueryCutoffs ==
    {CutoffAll} \cup
    {CutoffScalar(c) : c \in {309031, 381520, 999999, 1000000, 1732051,
                              2000000, 2645751, 3000000}}

QueryComponents == {"all", "XX", "ZZ", "XY"}

QueryMomenta == {0, 1}

\* Twice the unweighted sum of a getCorrelation result, in units of 1e-7.
CorrelationSum2(result, component) ==
    2 * SumSeq([j \in 1..Len(result) |->
                   IF component = "all"
                   THEN Fixed7(result[j][1][1]) + Fixed7(result[j][2][2])
                        + Fixed7(result[j][3][3])
                   ELSE Fixed7(result[j])])

QueryInit ==
    /\ qCutoff \in QueryCutoffs
    /\ qComponent \in QueryComponents
    /\ qKappa \in QueryMomenta
    /\ qRef = 1
    /\ qSum = 0
    /\ qSF = 0
    /\ qPc = "corr"
    /\ LdfIdle
    /\ EvalIdle
    /\ ObsIdle

\* getCorrelation(file, cutoff, site="all", reference, component)
QueryCorrelation ==
    /\ qPc = "corr"
    /\ qSum' = qSum + CorrelationSum2(
                   SpecGetCorrelation(qCutoff, SiteAll, RefBasis[qRef], qComponent),
                   qComponent)
    /\ IF qRef = Len(RefBasis)
       THEN qPc' = "factor" /\ UNCHANGED qRef
       ELSE qRef' = qRef + 1 /\ UNCHANGED qPc
    /\ UNCHANGED <<qCutoff, qComponent, qKappa, qSF>>
    /\ UNCHANGED notQuery

\* getStructureFactor(file, [k], cutoff, component)
QueryStructureFactor ==
    /\ qPc = "factor"
    /\ qSF' = SpecStructureFactor2(qKappa, qCutoff, qComponent)
    /\ qPc' = "done"
    /\ UNCHANGED <<qCutoff, qComponent, qKappa, qRef, qSum>>
    /\ UNCHANGED notQuery

QueryNext ==
    \/ QueryCorrelation
    \/ QueryStructureFactor

SpecQuery == QueryInit /\ [][QueryNext]_vars

====
